---------------------------- MODULE Spec2Model ----------------------------
(***************************************************************************)
(* The sales reporting layer of src/src/ui_builder: the Business Insights  *)
(* page (insights.py) and the chart functions (data_viz.py), as a state    *)
(* machine over the dataset handed in by the caller.                       *)
(*                                                                         *)
(* A dataset is a sequence of rows.  A row is a record with the fields     *)
(* date, store_id, store_name, item_id, item_name, category, sales; the    *)
(* variable cols says which of the optional columns the dataframe has (a   *)
(* field of an absent column is never read).  Keys of stores, items and    *)
(* categories are naturals standing for the labels in their sort order;    *)
(* NA is a missing value (NaN / None).  Sales are naturals.                *)
(*                                                                         *)
(* Floating-point results are exact rationals, or NaN / +inf / -inf with   *)
(* the rules of IEEE arithmetic that numpy follows on a division by zero.  *)
(***************************************************************************)
EXTENDS Integers, Sequences, FiniteSets, TLC

VARIABLES data, cols, pc, ret, log, out

vars == <<data, cols, pc, ret, log, out>>

-----------------------------------------------------------------------------
(* Floats: [k |-> "num", n |-> numerator, d |-> denominator > 0] in lowest  *)
(* terms, or k = "nan", "inf", "ninf".                                      *)

RECURSIVE Gcd(_, _)
Gcd(a, b) == IF b = 0 THEN a ELSE Gcd(b, a % b)

Abs(x) == IF x < 0 THEN -x ELSE x

Norm(n, d) ==
    LET g == Gcd(Abs(n), d)
    IN  [k |-> "num", n |-> n \div g, d |-> d \div g]

Num(n) == [k |-> "num", n |-> n, d |-> 1]
NaN    == [k |-> "nan", n |-> 0, d |-> 1]
Inf    == [k |-> "inf", n |-> 0, d |-> 1]
NInf   == [k |-> "ninf", n |-> 0, d |-> 1]

IsNum(x) == x.k = "num"
IsNaN(x) == x.k = "nan"
IsInfinite(x) == x.k \in {"inf", "ninf"}

Sign(x) ==
    CASE x.k = "inf"  -> 1
      [] x.k = "ninf" -> -1
      [] x.k = "nan"  -> 0
      [] OTHER -> IF x.n > 0 THEN 1 ELSE IF x.n < 0 THEN -1 ELSE 0

Signed(s) == IF s > 0 THEN Inf ELSE IF s < 0 THEN NInf ELSE NaN

FNeg(x) ==
    CASE x.k = "num"  -> [x EXCEPT !.n = -x.n]
      [] x.k = "inf"  -> NInf
      [] x.k = "ninf" -> Inf
      [] OTHER -> NaN

FAdd(a, b) ==
    IF IsNaN(a) \/ IsNaN(b) THEN NaN
    ELSE IF IsNum(a) /\ IsNum(b) THEN Norm(a.n * b.d + b.n * a.d, a.d * b.d)
    ELSE IF IsNum(a) THEN b
    ELSE IF IsNum(b) THEN a
    ELSE IF a.k = b.k THEN a ELSE NaN

FSub(a, b) == FAdd(a, FNeg(b))

FMul(a, b) ==
    IF IsNaN(a) \/ IsNaN(b) THEN NaN
    ELSE IF IsNum(a) /\ IsNum(b) THEN Norm(a.n * b.n, a.d * b.d)
    ELSE Signed(Sign(a) * Sign(b))

\* numpy division: x / 0 is +-inf for x # 0 and NaN for 0 / 0, no exception.
FDiv(a, b) ==
    IF IsNaN(a) \/ IsNaN(b) THEN NaN
    ELSE IF IsNum(a) /\ IsNum(b) THEN
        IF b.n = 0 THEN Signed(Sign(a))
        ELSE IF b.n > 0 THEN Norm(a.n * b.d, a.d * b.n)
        ELSE Norm(-(a.n * b.d), a.d * (-b.n))
    ELSE IF IsNum(b) THEN (IF b.n = 0 THEN a ELSE Signed(Sign(a) * Sign(b)))
    ELSE IF IsNum(a) THEN Num(0)
    ELSE NaN

\* a < b; every comparison with NaN is false.
FLt(a, b) ==
    IF IsNaN(a) \/ IsNaN(b) THEN FALSE
    ELSE IF IsNum(a) /\ IsNum(b) THEN a.n * b.d < b.n * a.d
    ELSE IF a.k = b.k THEN FALSE
    ELSE a.k = "ninf" \/ b.k = "inf"

FGt(a, b) == FLt(b, a)
FLe(a, b) == ~IsNaN(a) /\ ~IsNaN(b) /\ ~FLt(b, a)
FGe(a, b) == FLe(b, a)

\* round(1): to the nearest tenth, a tie to the even tenth (numpy.around).
Round1(x) ==
    IF ~IsNum(x) THEN x
    ELSE LET t == 10 * x.n
             q == t \div x.d
             r == t % x.d
             up == 2 * r > x.d \/ (2 * r = x.d /\ q % 2 = 1)
         IN  Norm(IF up THEN q + 1 ELSE q, 10)

FAbs(x) == IF Sign(x) < 0 THEN FNeg(x) ELSE x

-----------------------------------------------------------------------------
(* Calendar: dates are <<year, month, day>>.                                *)

DayOrder ==
    <<"Monday", "Tuesday", "Wednesday", "Thursday", "Friday", "Saturday", "Sunday">>

\* The order Python gives the day names as strings (a groupby sorts its keys).
AlphabeticalDays ==
    <<"Friday", "Monday", "Saturday", "Sunday", "Thursday", "Tuesday", "Wednesday">>

MonthOffset == <<0, 3, 2, 5, 0, 3, 5, 1, 4, 6, 2, 4>>

\* Series.dt.day_name(): the weekday of a Gregorian date.
DayName(date) ==
    LET y == IF date[2] < 3 THEN date[1] - 1 ELSE date[1]
        w == (y + (y \div 4) - (y \div 100) + (y \div 400)
                + MonthOffset[date[2]] + date[3]) % 7
    IN  <<"Sunday", "Monday", "Tuesday", "Wednesday", "Thursday", "Friday", "Saturday">>[w + 1]

YearOf(date)   == date[1]
MonthOf(date)  == date[2]
\* Series.dt.to_period("M"), as year * 100 + month: periods sort as these do.
PeriodOf(date) == date[1] * 100 + date[2]
DateOrd(date)  == date[1] * 10000 + date[2] * 100 + date[3]

-----------------------------------------------------------------------------
(* Dataframe helpers.                                                       *)

\* A missing value (NaN / None) in a key column.
NA == 0

OptionalCols == {"store_id", "store_name", "item_id", "item_name", "category"}

Row(date, store, item, cat, sales) ==
    [date |-> date, store_id |-> store, store_name |-> store,
     item_id |-> item, item_name |-> item, category |-> cat, sales |-> sales]

\* A sequence given as a function on 1..n, as the tuple of its values.
Seq1(f) == f \o <<>>

RECURSIVE SortSet(_)
SortSet(S) ==
    IF S = {} THEN <<>>
    ELSE LET m == CHOOSE x \in S : \A y \in S : x <= y
         IN  <<m>> \o SortSet(S \ {m})

RECURSIVE SumSales(_)
SumSales(rows) ==
    IF rows = <<>> THEN 0 ELSE Head(rows).sales + SumSales(Tail(rows))

\* data[col]: a column of the frame, as a Series aligned with the rows.
Col(rows, col) == [i \in DOMAIN rows |-> rows[i][col]]

\* The keys of a groupby: the distinct values of the key, sorted, a row whose
\* key is missing left out (pandas' defaults sort=True, dropna=True).
GroupKeys(by) == SortSet({by[i] : i \in DOMAIN by} \ {NA})

\* df.groupby(by)["sales"].agg(["sum", "mean", "count"]), in key order; by is
\* a Series of keys aligned with the rows.
GroupBy(rows, by) ==
    LET keys == GroupKeys(by)
        keyed == Seq1([i \in DOMAIN rows |-> [key |-> by[i], sales |-> rows[i].sales]])
    IN  Seq1([i \in 1..Len(keys) |->
            LET g == SelectSeq(keyed, LAMBDA r : r.key = keys[i])
                total == SumSales(g)
            IN  [key |-> keys[i], sum |-> total, count |-> Len(g),
                 mean |-> Norm(total, Len(g))]])

\* A stable sort of positions: x goes before the first position whose value
\* is larger (smaller when descending).
Insert(t, x, by, ascending) ==
    LET later == {i \in 1..Len(t) : IF ascending THEN FLt(by[x], by[t[i]])
                                    ELSE FGt(by[x], by[t[i]])}
        p == IF later = {} THEN Len(t) + 1
             ELSE CHOOSE i \in later : \A j \in later : i <= j
    IN  SubSeq(t, 1, p - 1) \o <<x>> \o SubSeq(t, p, Len(t))

\* sort_values(by, ascending): stable here, ties keeping their order, and the
\* entries whose value is NaN last.
SortValues(s, by, ascending) ==
    LET k == Seq1(by)
        F[i \in 0..Len(s)] ==
            IF i = 0 THEN <<>>
            ELSE IF IsNaN(k[i]) THEN F[i - 1]
            ELSE Insert(F[i - 1], i, k, ascending)
        nans == SelectSeq(Seq1([i \in DOMAIN s |-> i]), LAMBDA i : IsNaN(k[i]))
        order == F[Len(s)] \o nans
    IN  Seq1([i \in DOMAIN s |-> s[order[i]]])

Unsorted(g) == g

\* sort_values("sum", ascending=False): ties keep the order of the groupby.
SortDescending(g) == SortValues(g, [i \in DOMAIN g |-> Num(g[i].sum)], FALSE)
\* sort_values(ascending=True)
SortAscending(g) == SortValues(g, [i \in DOMAIN g |-> Num(g[i].sum)], TRUE)

\* head(n) and tail(n) of a frame
HeadN(s, n) == SubSeq(s, 1, IF Len(s) < n THEN Len(s) ELSE n)
TailN(s, n) == SubSeq(s, IF Len(s) < n THEN 1 ELSE Len(s) - n + 1, Len(s))

KeysOf(g) == Seq1([i \in DOMAIN g |-> g[i].key])

\* Series.mean() of floats: NaN entries are skipped; NaN when nothing is left.
RECURSIVE FSum(_)
FSum(s) == IF s = <<>> THEN Num(0) ELSE FAdd(Head(s), FSum(Tail(s)))

FMean(s) ==
    LET v == SelectSeq(s, LAMBDA x : ~IsNaN(x))
    IN  IF v = <<>> THEN NaN ELSE FDiv(FSum(v), Num(Len(v)))

\* The positions of idxmax / idxmin: the first largest / smallest entry that
\* is not NaN (0 when there is none).
IdxMax(s) ==
    LET ok == {i \in DOMAIN s : ~IsNaN(s[i])}
    IN  IF ok = {} THEN 0
        ELSE CHOOSE i \in ok : \A j \in ok :
                 FGt(s[i], s[j]) \/ (~FLt(s[i], s[j]) /\ i <= j)

IdxMin(s) ==
    LET ok == {i \in DOMAIN s : ~IsNaN(s[i])}
    IN  IF ok = {} THEN 0
        ELSE CHOOSE i \in ok : \A j \in ok :
                 FLt(s[i], s[j]) \/ (~FGt(s[i], s[j]) /\ i <= j)

-----------------------------------------------------------------------------
(* display_executive_summary                                                *)

\* Series.nunique(): the distinct values that are not missing.
Nunique(rows, col) == Cardinality({rows[i][col] : i \in DOMAIN rows} \ {NA})

PctChangeFromFirst(g, i) ==
    IF i = 1 THEN NaN
    ELSE FMul(FSub(FDiv(Num(g[i].sum), Num(g[1].sum)), Num(1)), Num(100))

\* pct_change() * 100 of the entry at position i of the totals g: the entry
\* divided by the one before it, minus 1; NaN for the first entry.
PctChange(g, i) ==
    IF i = 1 THEN NaN
    ELSE FMul(FSub(FDiv(Num(g[i].sum), Num(g[i - 1].sum)), Num(1)), Num(100))

\* groupby(date.dt.to_period("M"))["sales"].sum(), with its pct_change column.
MonthlyTrend(rows) ==
    LET g == GroupBy(rows, [i \in DOMAIN rows |-> PeriodOf(rows[i].date)])
    IN  Seq1([i \in DOMAIN g |->
            [period |-> g[i].key, sales |-> g[i].sum, pct_change |-> PctChange(g, i)]])

TrendWindow == 3
PositiveAbove == 5

\* monthly["pct_change"].tail(3).mean()
RecentTrend(monthly) ==
    LET recent == TailN(monthly, TrendWindow)
    IN  FMean(Seq1([i \in DOMAIN recent |-> recent[i].pct_change]))

TrendMessage(recent) ==
    IF FGt(recent, Num(PositiveAbove)) THEN "positive"
    ELSE IF FGt(recent, Num(0)) THEN "stable"
    ELSE "declining"

ExecutiveSummary(rows, c) ==
    LET daily   == GroupBy(rows, [i \in DOMAIN rows |-> DateOrd(rows[i].date)])
        monthly == MonthlyTrend(rows)
        recent  == RecentTrend(monthly)
    IN  [error |-> "none",
         total_sales |-> SumSales(rows),
         avg_daily_revenue |-> FMean(Seq1([i \in DOMAIN daily |-> Num(daily[i].sum)])),
         num_stores |-> IF "store_id" \in c THEN Nunique(rows, "store_id") ELSE 0,
         num_items  |-> IF "item_id" \in c THEN Nunique(rows, "item_id") ELSE 0,
         monthly |-> monthly,
         recent_trend |-> recent,
         trend_messages |-> <<TrendMessage(recent)>>]

-----------------------------------------------------------------------------
(* display_performer_analysis                                               *)

\* "store_name" if "store_name" in data.columns else "store_id"
StoreCol(c) == IF "store_name" \in c THEN "store_name" ELSE "store_id"
ItemCol(c)  == IF "item_name" \in c THEN "item_name" ELSE "item_id"

PerformerTop == 5
PerformerChartTop == 10

\* (best - worst) / worst * 100 of the first and last row of the ranking
GapPct(ranked) ==
    LET best  == Num(ranked[1].sum)
        worst == Num(ranked[Len(ranked)].sum)
    IN  FMul(FDiv(FSub(best, worst), worst), Num(100))

StoreRanking(rows, c) ==
    SortDescending(GroupBy(rows, Col(rows, StoreCol(c))))

ItemRanking(rows, c) ==
    SortDescending(GroupBy(rows, Col(rows, ItemCol(c))))

\* The category table with its "Revenue Share (%)" column.
CategoryRanking(rows) ==
    LET ranked == SortDescending(GroupBy(rows, Col(rows, "category")))
        total  == FSum(Seq1([i \in DOMAIN ranked |-> Num(ranked[i].sum)]))
    IN  Seq1([i \in DOMAIN ranked |->
            [key |-> ranked[i].key, sum |-> ranked[i].sum,
             share |-> Round1(FMul(FDiv(Num(ranked[i].sum), total), Num(100)))]])

StorePart(ranked) ==
        [store_sales |-> ranked,
         best_store  |-> ranked[1].key,
         worst_store |-> ranked[Len(ranked)].key,
         gap_pct     |-> GapPct(ranked)]

ItemPart(ranked) ==
        [item_sales |-> ranked,
         top5    |-> HeadN(ranked, PerformerTop),
         bottom5 |-> TailN(ranked, PerformerTop),
         top10   |-> HeadN(ranked, PerformerChartTop)]

CategoryPart(ranked) ==
        [cat_sales |-> ranked,
         top_cat |-> ranked[1].key,
         bottom_cat |-> ranked[Len(ranked)].key]

\* A groupby on a column the frame lacks raises KeyError; iloc[0] on a
\* ranking with no group raises IndexError.
PerformerAnalysis(rows, c) ==
    LET stores == StoreRanking(rows, c)
        items  == ItemRanking(rows, c)
        cats   == CategoryRanking(rows)
    IN  IF StoreCol(c) \notin c THEN [error |-> "KeyError"]
        ELSE IF stores = <<>> THEN [error |-> "IndexError"]
        ELSE IF ItemCol(c) \notin c THEN [error |-> "KeyError"] @@ StorePart(stores)
        ELSE IF "category" \notin c
             THEN [error |-> "none"] @@ StorePart(stores) @@ ItemPart(items)
        ELSE IF cats = <<>>
             THEN [error |-> "IndexError"] @@ StorePart(stores) @@ ItemPart(items)
        ELSE [error |-> "none"] @@ StorePart(stores) @@ ItemPart(items)
                 @@ CategoryPart(cats)

-----------------------------------------------------------------------------
(* display_timing_insights                                                  *)

\* data_copy = data.copy(); data_copy["day_of_week"] = data_copy["date"]
\* .dt.day_name(): the frame that gets the derived column.
DataCopy(rows) ==
    Seq1([i \in DOMAIN rows |-> [day_of_week |-> DayName(rows[i].date)] @@ rows[i]])

AssignedInPlace(rows) == DataCopy(rows)

\* The frame the caller passed, once the function has returned: copy() made
\* a new object, so the assignment of the column did not reach it.
CallerFrame(rows) == rows

\* The position of a day name among the day names in string order.
DayKey(day) ==
    CHOOSE i \in 1..7 : AlphabeticalDays[i] = day

\* groupby("day_of_week")["sales"].mean(): one entry per day name that occurs,
\* in the order of the keys as strings.
DayOfWeekMeans(rows) ==
    LET data_copy == DataCopy(rows)
        g == GroupBy(data_copy,
                     [i \in DOMAIN data_copy |-> DayKey(data_copy[i].day_of_week)])
    IN  Seq1([i \in DOMAIN g |-> [day |-> AlphabeticalDays[g[i].key], mean |-> g[i].mean]])

NotReindexed(series, order) == series

\* Series.reindex(order): the entries in the given order, NaN for a day that
\* does not occur.
Reindex(series, order) ==
    Seq1([i \in DOMAIN order |->
        [day |-> order[i],
         mean |-> IF \E j \in DOMAIN series : series[j].day = order[i]
                  THEN series[CHOOSE j \in DOMAIN series : series[j].day = order[i]].mean
                  ELSE NaN]])

MeansOf(series) == Seq1([i \in DOMAIN series |-> series[i].mean])

\* dow_sales[[...]].mean() over the named days
MeanOver(series, days) ==
    FMean(MeansOf(SelectSeq(series, LAMBDA e : e.day \in days)))

\* groupby(date.dt.month)["sales"].mean()
MonthlyAverage(rows) == GroupBy(rows, [i \in DOMAIN rows |-> MonthOf(rows[i].date)])

PeakMonth(rows) ==
    LET m == MonthlyAverage(rows) IN m[IdxMax(MeansOf(m))].key
LowMonth(rows) ==
    LET m == MonthlyAverage(rows) IN m[IdxMin(MeansOf(m))].key

TimingInsights(rows) ==
    LET dow == Reindex(DayOfWeekMeans(rows), DayOrder)
        weekend == MeanOver(dow, {"Saturday", "Sunday"})
        weekday == MeanOver(dow, {"Monday", "Tuesday", "Wednesday", "Thursday", "Friday"})
        lift    == FMul(FDiv(FSub(weekend, weekday), weekday), Num(100))
    IN  [error |-> "none",
         dow_sales |-> dow,
         best_day  |-> dow[IdxMax(MeansOf(dow))].day,
         worst_day |-> dow[IdxMin(MeansOf(dow))].day,
         weekend_lift |-> lift,
         timing_message |-> IF FGt(lift, Num(0)) THEN "weekends" ELSE "weekdays",
         peak_month |-> PeakMonth(rows),
         low_month  |-> LowMonth(rows)]

-----------------------------------------------------------------------------
(* display_growth_opportunities                                             *)

GapThreshold == -10
TargetsShown == 5
GrowthShown == 5

\* The rows groupby(["store_name", "category"]) keeps: both keys present.
GapRows(rows) ==
    SelectSeq(rows, LAMBDA r : r.store_name # NA /\ r.category # NA)

\* pivot.index and pivot.columns
GapStores(rows) == GroupKeys(Col(GapRows(rows), "store_name"))
GapCategories(rows) == GroupKeys(Col(GapRows(rows), "category"))

\* pivot.loc[store, cat]: the mean sale of the store in the category, NaN when
\* the store has no row in it.
CellMean(rows, store, cat) ==
    LET g == SelectSeq(rows, LAMBDA r : r.store_name = store /\ r.category = cat)
    IN  IF g = <<>> THEN NaN ELSE Norm(SumSales(g), Len(g))

\* pivot, as pivot[i][j] for the i-th store and the j-th category
Pivot(rows) ==
    LET stores == GapStores(rows)
        cats   == GapCategories(rows)
    IN  Seq1([i \in DOMAIN stores |->
                 Seq1([j \in DOMAIN cats |-> CellMean(rows, stores[i], cats[j])])])

\* pivot.mean()[cat]: the mean of a column over the stores, NaN skipped.
CategoryAvg(pivot, j) == FMean(Seq1([i \in DOMAIN pivot |-> pivot[i][j]]))

\* ((pivot[col] - category_avg[col]) / category_avg[col] * 100).round(1)
Deviation(value, avg) ==
    Round1(FMul(FDiv(FSub(value, avg), avg), Num(100)))

\* gaps, in the order of the loops "for store in gaps.index: for cat in
\* gaps.columns".
GapTable(rows) ==
    LET stores == GapStores(rows)
        cats   == GapCategories(rows)
        nc     == Len(cats)
        pivot  == Pivot(rows)
        avg    == Seq1([j \in DOMAIN cats |-> CategoryAvg(pivot, j)])
    IN  Seq1([k \in 1..(Len(stores) * nc) |->
            LET i == ((k - 1) \div nc) + 1
                j == ((k - 1) % nc) + 1
            IN  [store |-> stores[i], category |-> cats[j],
                 value |-> pivot[i][j],
                 category_avg |-> avg[j],
                 gap |-> Deviation(pivot[i][j], avg[j])]])

OpportunitiesAtThreshold(gaps) ==
    LET found == SelectSeq(gaps, LAMBDA cell : FLe(cell.gap, Num(GapThreshold)))
    IN  SortValues(found, [i \in DOMAIN found |-> found[i].gap], TRUE)

\* The cells with val < -10, then list.sort(key=gap), which is stable.
Opportunities(gaps) ==
    LET found == SelectSeq(gaps, LAMBDA cell : FLt(cell.gap, Num(GapThreshold)))
    IN  SortValues(found, [i \in DOMAIN found |-> found[i].gap], TRUE)

\* opportunities[:5], each with abs(gap) * category_avg[cat] / 100
Targets(opportunities) ==
    LET shown == HeadN(opportunities, TargetsShown)
    IN  Seq1([i \in DOMAIN shown |->
            [store |-> shown[i].store, category |-> shown[i].category,
             gap |-> shown[i].gap,
             potential |-> FDiv(FMul(FAbs(shown[i].gap), shown[i].category_avg), Num(100))]])

GapPart(rows) ==
    LET gaps == GapTable(rows)
        opps == Opportunities(gaps)
    IN  [gaps |-> gaps, opportunities |-> opps, targets |-> Targets(opps)]

\* The rows groupby([year, item_col]) keeps.
YoYRows(rows, c) == SelectSeq(rows, LAMBDA r : r[ItemCol(c)] # NA)

\* yoy.columns: the years of the unstacked table
YoYYears(rows, c) ==
    LET kept == YoYRows(rows, c)
    IN  GroupKeys([i \in DOMAIN kept |-> YearOf(kept[i].date)])

\* yoy.loc[item, year]: the item's total in the year, NaN without a row
YearTotal(rows, c, item, year) ==
    LET g == SelectSeq(rows, LAMBDA r : r[ItemCol(c)] = item /\ YearOf(r.date) = year)
    IN  IF g = <<>> THEN NaN ELSE Num(SumSales(g))

\* ((yoy[year2] - yoy[year1]) / yoy[year1] * 100).round(1)
GrowthPct(first, second) ==
    Round1(FMul(FDiv(FSub(second, first), first), Num(100)))

\* DataFrame.dropna(): a row with a NaN in any column goes.
DropNa(table) ==
    SelectSeq(table, LAMBDA row :
        /\ ~IsNaN(row.growth_pct)
        /\ \A j \in DOMAIN row.totals : ~IsNaN(row.totals[j]))

\* sort_values("growth_pct", ascending=False): NaN rows last
SortByGrowth(table) ==
    SortValues(table, [i \in DOMAIN table |-> table[i].growth_pct], FALSE)

YoYTable(rows, c) ==
    LET years == YoYYears(rows, c)
        items == GroupKeys(Col(rows, ItemCol(c)))
        table == Seq1([i \in DOMAIN items |->
                    LET totals == Seq1([j \in DOMAIN years |->
                                      YearTotal(rows, c, items[i], years[j])])
                    IN  [item |-> items[i], totals |-> totals,
                         growth_pct |-> GrowthPct(totals[1], totals[2])]])
    IN  DropNa(SortByGrowth(table))

YoYPart(rows, c) ==
    LET yoy == YoYTable(rows, c)
    IN  [yoy |-> yoy,
         top_growth |-> HeadN(yoy, GrowthShown),
         declining |-> TailN(SelectSeq(yoy, LAMBDA row : FLt(row.growth_pct, Num(0))),
                             GrowthShown)]

GrowthOpportunities(rows, c) ==
    LET gapPart == IF "category" \in c /\ "store_name" \in c
                   THEN GapPart(rows) ELSE [error |-> "none"]
        years   == {YearOf(rows[i].date) : i \in DOMAIN rows}
    IN  IF Cardinality(years) > 1
        THEN IF ItemCol(c) \notin c THEN [error |-> "KeyError"] @@ gapPart
             ELSE IF Len(YoYYears(rows, c)) >= 2
                  THEN [error |-> "none"] @@ gapPart @@ YoYPart(rows, c)
             ELSE [error |-> "none"] @@ gapPart
        ELSE [error |-> "none"] @@ gapPart

-----------------------------------------------------------------------------
(* display_recommendations                                                  *)

RecommendTop == 5

\* nlargest(n) / nsmallest(n): ties go to the key met first (keep="first").
NLargest(g, n)  == HeadN(SortDescending(g), n)
NSmallest(g, n) == HeadN(SortAscending(g), n)

SumsOf(g) == Seq1([i \in DOMAIN g |-> Num(g[i].sum)])

RecStorePart(g) ==
    [rec_best_store  |-> g[IdxMax(SumsOf(g))].key,
     rec_worst_store |-> g[IdxMin(SumsOf(g))].key]

RecTimingPart(rows) ==
    LET dow == DayOfWeekMeans(rows)
    IN  [rec_worst_day  |-> dow[IdxMin(MeansOf(dow))].day,
         rec_peak_month |-> PeakMonth(rows),
         rec_low_month  |-> LowMonth(rows)]

RecItemPart(g) ==
    [top_items    |-> NLargest(g, RecommendTop),
     bottom_items |-> NSmallest(g, RecommendTop)]

RecCategoryPart(g) ==
    [rec_top_cat    |-> g[IdxMax(SumsOf(g))].key,
     rec_bottom_cat |-> g[IdxMin(SumsOf(g))].key]

\* idxmax of a Series with no group raises ValueError.
Recommendations(rows, c) ==
    LET stores == GroupBy(rows, Col(rows, StoreCol(c)))
        items  == GroupBy(rows, Col(rows, ItemCol(c)))
        cats   == GroupBy(rows, Col(rows, "category"))
    IN  IF StoreCol(c) \notin c THEN [error |-> "KeyError"]
        ELSE IF stores = <<>> THEN [error |-> "ValueError"]
        ELSE IF ItemCol(c) \notin c
             THEN [error |-> "KeyError"] @@ RecStorePart(stores) @@ RecTimingPart(rows)
        ELSE LET parts == RecStorePart(stores) @@ RecTimingPart(rows) @@ RecItemPart(items)
             IN  IF "category" \notin c THEN [error |-> "none"] @@ parts
                 ELSE IF cats = <<>> THEN [error |-> "ValueError"] @@ parts
                 ELSE [error |-> "none"] @@ parts @@ RecCategoryPart(cats)

-----------------------------------------------------------------------------
(* The page and its sections.                                               *)

NoFigure == [plot |-> "none"]

\* A section's result joins what the page has rendered; a section that raises
\* ends the page.
Render(section, result, next, frame) ==
    /\ log' = Append(log, section)
    /\ out' = result @@ out
    /\ pc' = IF result.error = "none" THEN next ELSE "raised"
    /\ data' = frame
    /\ UNCHANGED <<cols, ret>>

BusinessInsightsView ==
    /\ pc = "idle"
    /\ ret' = ret
    /\ IF data = <<>>
       THEN log' = <<"title", "warning">> /\ pc' = "done"
       ELSE log' = <<"title", "intro">> /\ pc' = "summary"
    /\ UNCHANGED <<data, cols, out>>

DisplayExecutiveSummary ==
    /\ pc = "summary"
    /\ Render("summary", ExecutiveSummary(data, cols), "performers", data)

DisplayPerformerAnalysis ==
    /\ pc = "performers"
    /\ Render("performers", PerformerAnalysis(data, cols), "timing", data)

DisplayTimingInsights ==
    /\ pc = "timing"
    /\ Render("timing", TimingInsights(data), "growth", CallerFrame(data))

DisplayGrowthOpportunities ==
    /\ pc = "growth"
    /\ Render("growth", GrowthOpportunities(data, cols), "recommendations", data)

DisplayRecommendations ==
    /\ pc = "recommendations"
    /\ Render("recommendations", Recommendations(data, cols), "done", CallerFrame(data))

-----------------------------------------------------------------------------
(* data_viz.py: each function returns the figure it draws.                  *)

StoreChartTop == 10

AllStores == "All Stores"

\* The store named in the title of plot_sales_time_series.
StoreLabel(selected_store, selected_store_name) ==
    IF selected_store_name # AllStores THEN selected_store_name ELSE selected_store

TimeSeriesFigure(rows, selected_store, selected_store_name) ==
    [plot |-> "time_series",
     series |-> GroupBy(rows, [i \in DOMAIN rows |-> DateOrd(rows[i].date)]),
     title |-> StoreLabel(selected_store, selected_store_name)]

DayOfWeekFigure(rows) ==
    [plot |-> "day_of_week", series |-> Reindex(DayOfWeekMeans(rows), DayOrder)]

DistributionFigure(rows) ==
    [plot |-> "distribution", series |-> Seq1([i \in DOMAIN rows |-> rows[i].sales])]

CategoryFigure(rows, c) ==
    IF "category" \notin c THEN [plot |-> "raised", error |-> "KeyError"]
    ELSE [plot |-> "category", series |-> GroupBy(rows, Col(rows, "category"))]

\* groupby(store_identifier)["sales"].sum().sort_values(ascending=True).tail(10)
StoreComparisonFigure(rows, c, store_identifier) ==
    IF store_identifier \notin c THEN [plot |-> "raised", error |-> "KeyError"]
    ELSE [plot |-> "store_comparison",
          series |-> TailN(SortAscending(GroupBy(rows, Col(rows, store_identifier))),
                           StoreChartTop)]

\* One behaviour is one call by the page's caller: of one chart function,
\* which returns its figure, or of business_insights_view.
Plot(figure, frame) ==
    /\ pc = "idle"
    /\ pc' = "plotted"
    /\ ret' = figure
    /\ data' = frame
    /\ UNCHANGED <<cols, log, out>>

PlotSalesTimeSeries ==
    \E selected_store, selected_store_name \in {AllStores, "Store 1"} :
        Plot(TimeSeriesFigure(data, selected_store, selected_store_name), data)

PlotDayOfWeekPattern == Plot(DayOfWeekFigure(data), CallerFrame(data))

PlotSalesDistribution == Plot(DistributionFigure(data), data)

PlotCategoryDistribution == Plot(CategoryFigure(data, cols), data)

PlotStoreComparison ==
    \E store_identifier \in {"store_id", "store_name"} :
        Plot(StoreComparisonFigure(data, cols, store_identifier), data)

-----------------------------------------------------------------------------
(* Datasets.                                                                *)

RECURSIVE SeqsUpTo(_, _)
SeqsUpTo(S, n) ==
    IF n = 0 THEN {<<>>}
    ELSE LET shorter == SeqsUpTo(S, n - 1)
         IN  shorter \cup {Append(s, x) : s \in shorter, x \in S}

Monday2020 == <<2020, 1, 6>>

\* The page over frames with any subset of the optional columns.
MaxRows == 2

ColumnRows ==
    {Row(d, 1, 1, cat, s) :
        d \in {Monday2020, <<2021, 2, 6>>}, cat \in {NA, 1}, s \in {0, 9}}

\* Wide frames: row i is the only row of store i and of item i, the
\* categories alternate, each sale is 1 or 2.
MaxWide == 11

WideFrames ==
    UNION {{[i \in 1..n |-> Row(Monday2020, i, i, (i % 2) + 1, v[i])] :
               v \in [1..n -> {1, 2}]} : n \in 0..MaxWide}

\* Rankings: stores and items that share rows, a missing store.
MaxRankRows == 2

RankRows ==
    {Row(Monday2020, st, it, 1, s) : st \in {NA, 1, 2}, it \in {1, 2}, s \in {1, 2}}

\* The gap table: two stores, two categories.
MaxGapRows == 2

GapRowSet ==
    {Row(Monday2020, st, 1, cat, s) : st \in {1, 2}, cat \in {1, 2}, s \in {0, 9, 11}}

\* Dates: four months of two years, on four weekdays, in any row order.
MaxDateRows == 3

DateRows ==
    {Row(d, 1, 1, 1, s) :
        d \in {Monday2020, <<2020, 1, 11>>, <<2020, 3, 1>>, <<2021, 2, 5>>},
        s \in {0, 2, 3}}

\* Years: two items over three years.
MaxYearRows == 3

YearRows ==
    {Row(d, 1, it, 1, s) :
        d \in {Monday2020, <<2021, 2, 5>>, <<2022, 3, 1>>}, it \in {1, 2}, s \in {9, 11}}

\* The dataframe with the columns c: date, sales and the optional ones in c.
Frame(rows, c) ==
    Seq1([i \in DOMAIN rows |-> [f \in {"date", "sales"} \cup c |-> rows[i][f]]])

Start(datasets, columns) ==
    /\ cols \in columns
    /\ data \in {Frame(rows, cols) : rows \in datasets}
    /\ pc = "idle"
    /\ ret = NoFigure
    /\ log = <<>>
    /\ out = [error |-> "none"]

Init == Start(SeqsUpTo(ColumnRows, MaxRows), SUBSET OptionalCols)

InitRanking == Start(SeqsUpTo(RankRows, MaxRankRows) \cup WideFrames, {OptionalCols})

InitGap == Start(SeqsUpTo(GapRowSet, MaxGapRows) \cup WideFrames, {OptionalCols})

InitDates == Start(SeqsUpTo(DateRows, MaxDateRows), {OptionalCols})

InitYears == Start(SeqsUpTo(YearRows, MaxYearRows), {OptionalCols})

Next ==
    \/ BusinessInsightsView
    \/ DisplayExecutiveSummary
    \/ DisplayPerformerAnalysis
    \/ DisplayTimingInsights
    \/ DisplayGrowthOpportunities
    \/ DisplayRecommendations
    \/ PlotSalesTimeSeries
    \/ PlotDayOfWeekPattern
    \/ PlotSalesDistribution
    \/ PlotCategoryDistribution
    \/ PlotStoreComparison

Spec == Init /\ [][Next]_vars

SpecRanking == InitRanking /\ [][Next]_vars

SpecGap == InitGap /\ [][Next]_vars

SpecDates == InitDates /\ [][Next]_vars

SpecYears == InitYears /\ [][Next]_vars

-----------------------------------------------------------------------------
(* Properties.                                                              *)

Has(field) == field \in DOMAIN out

PageEnded == pc \in {"done", "raised"}

Min(a, b) == IF a < b THEN a ELSE b

\* The rows of the dataset whose column col holds k, and their total.
RowsWith(col, k) == {i \in DOMAIN data : data[i][col] = k}

RECURSIVE TotalOver(_)
TotalOver(I) ==
    IF I = {} THEN 0
    ELSE LET i == CHOOSE x \in I : TRUE
         IN  data[i].sales + TotalOver(I \ {i})

RECURSIVE GroupTotal(_)
GroupTotal(g) == IF g = <<>> THEN 0 ELSE Head(g).sum + GroupTotal(Tail(g))

(* C1: for a non-empty dataset, the per-group totals of a grouping by store, *)
(* item or category add up to the total sales of all its rows, whatever      *)
(* values the grouping column holds: no row is lost or counted twice.        *)
C1_GroupTotalsAddUp ==
    /\ Has("store_sales") => GroupTotal(out.store_sales) = TotalOver(DOMAIN data)
    /\ Has("item_sales")  => GroupTotal(out.item_sales) = TotalOver(DOMAIN data)
    /\ Has("cat_sales")   => GroupTotal(out.cat_sales) = TotalOver(DOMAIN data)
    /\ ret.plot = "category" => GroupTotal(ret.series) = TotalOver(DOMAIN data)

\* The keys of the groups of a column: its values that are not missing.
Keys(col) == {data[i][col] : i \in DOMAIN data} \ {NA}

\* r lists n groups of the column, or all of them when there are fewer, each
\* once and with its total, and no group left out has a larger total.
IsTopN(r, n, col) ==
    LET shown == {r[i].key : i \in DOMAIN r}
    IN  /\ Len(r) = Min(n, Cardinality(Keys(col)))
        /\ Cardinality(shown) = Len(r)
        /\ shown \subseteq Keys(col)
        /\ \A i \in DOMAIN r : r[i].sum = TotalOver(RowsWith(col, r[i].key))
        /\ \A k \in Keys(col) \ shown : \A i \in DOMAIN r :
               TotalOver(RowsWith(col, k)) <= r[i].sum

IsDescending(r) == \A i \in 1..(Len(r) - 1) : r[i].sum >= r[i + 1].sum

(* C2: a top-N ranking of groups by total sales (top 5 and top 10 items of  *)
(* the performer analysis, top 5 items of the recommendations, top 10       *)
(* stores of plot_store_comparison) has exactly min(N, number of groups)    *)
(* entries, they are the N groups with the largest totals, and in the       *)
(* descending rankings each entry's total is >= the next one's.             *)
C2_TopNRanking ==
    /\ Has("top5") =>
          /\ IsTopN(out.top5, 5, ItemCol(cols)) /\ IsDescending(out.top5)
          /\ IsTopN(out.top10, 10, ItemCol(cols)) /\ IsDescending(out.top10)
    /\ Has("top_items") =>
          IsTopN(out.top_items, 5, ItemCol(cols)) /\ IsDescending(out.top_items)
    /\ ret.plot = "store_comparison" =>
          \E col \in {"store_id", "store_name"} \cap cols : IsTopN(ret.series, 10, col)

\* The page has ranked more than ten items: both rankings are cut, the top 5
\* between two items of equal total.
C2_Witness ==
    /\ pc = "done"
    /\ Cardinality(Keys(ItemCol(cols))) > 10
    /\ Len(out.top5) = 5 /\ Len(out.top10) = 10 /\ Len(out.top_items) = 5
    /\ out.top5[1].sum > out.top5[5].sum
    /\ out.item_sales[6].sum = out.top5[5].sum

AllSections ==
    <<"title", "intro", "summary", "performers", "timing", "growth", "recommendations">>

(* C3: on an empty dataset the page shows the warning alone and returns,    *)
(* no section run and nothing else rendered; on a non-empty dataset all     *)
(* five sections run, in the fixed order.                                   *)
C3_WarningOrAllSections ==
    /\ (data = <<>> /\ pc \notin {"idle", "plotted"}) =>
          /\ pc = "done"
          /\ log = <<"title", "warning">>
          /\ out = [error |-> "none"]
    /\ (data # <<>> /\ PageEnded) => (pc = "done" /\ log = AllSections)
    /\ data # <<>> => log = SubSeq(AllSections, 1, Len(log))

(* C4: on a non-empty dataset with date and sales, no subset of the optional *)
(* columns being absent is a hard failure: no section raises for a missing   *)
(* column, and the page completes.                                           *)
C4_MissingColumnNeverFails ==
    data # <<>> => (out.error # "KeyError" /\ (PageEnded => pc = "done"))

\* The cells of the gap table that have data, and those of one category.
GapCells == {k \in DOMAIN out.gaps : ~IsNaN(out.gaps[k].value)}

CellsOf(cat) == {k \in GapCells : out.gaps[k].category = cat}

RECURSIVE ValueSum(_)
ValueSum(K) ==
    IF K = {} THEN Num(0)
    ELSE LET k == CHOOSE x \in K : TRUE
         IN  FAdd(out.gaps[k].value, ValueSum(K \ {k}))

\* The simple mean of a category over the stores that have data for it.
MeanOfCategory(cat) == FDiv(ValueSum(CellsOf(cat)), Num(Cardinality(CellsOf(cat))))

(* C5: each cell of the store x category gap table deviates by (cell mean - *)
(* category mean) / category mean x 100, to one decimal as the table holds  *)
(* it, the category mean being the simple mean over the stores with data    *)
(* for the category; hence when the stores of each category all have the    *)
(* same mean every deviation is zero, and so is the deviation of a          *)
(* single-store single-category table.                                      *)
C5_GapDeviation ==
    Has("gaps") =>
        /\ \A k \in GapCells :
              LET cell == out.gaps[k]
                  rows == RowsWith("store_name", cell.store) \cap RowsWith("category", cell.category)
                  mean == MeanOfCategory(cell.category)
              IN  /\ cell.value = Norm(TotalOver(rows), Cardinality(rows))
                  /\ cell.gap = Round1(FMul(FDiv(FSub(cell.value, mean), mean), Num(100)))
        /\ (\A j, k \in GapCells :
               out.gaps[j].category = out.gaps[k].category =>
                   out.gaps[j].value = out.gaps[k].value)
              => \A k \in GapCells : out.gaps[k].gap = Num(0)

\* The rows of the weekend and of the other days.
WeekendRows == {i \in DOMAIN data : DayName(data[i].date) \in {"Saturday", "Sunday"}}

(* C6: a zero denominator (a category's mean in the gap table, an item's    *)
(* first-year total, the previous month's total, the lowest store's total,  *)
(* the weekday average) makes the page skip the group: it holds no NaN and  *)
(* no infinite value for a group that has data, and nothing is raised.      *)
C6_ZeroDenominatorSkipped ==
    /\ Has("monthly") =>
          \A i \in 2..Len(out.monthly) : IsNum(out.monthly[i].pct_change)
    /\ Has("gap_pct") => IsNum(out.gap_pct)
    /\ (Has("weekend_lift") /\ WeekendRows # {} /\ WeekendRows # DOMAIN data)
          => IsNum(out.weekend_lift)
    /\ Has("gaps") => \A k \in GapCells : IsNum(out.gaps[k].gap)
    /\ Has("yoy") => \A i \in DOMAIN out.yoy : IsNum(out.yoy[i].growth_pct)

\* The cells of the gap table whose deviation is strictly below -10.
Below == {k \in DOMAIN out.gaps : FLt(out.gaps[k].gap, Num(-10))}

Periods == {<<YearOf(data[i].date), MonthOf(data[i].date)>> : i \in DOMAIN data}

Earlier(p, q) == p[1] < q[1] \/ (p[1] = q[1] /\ p[2] < q[2])

MonthOfEntry(e) == <<e.period \div 100, e.period % 100>>

(* C8: the monthly trend has one entry per year-month of the data, in        *)
(* chronological order, whose value is the month's total sales; the first    *)
(* percent change is null and every later one is (current - previous) /      *)
(* previous x 100 over the totals of the entry and the one before it, so     *)
(* that totals in the ratio 100 : 150 give 50.0.                             *)
C8_MonthlyTrend ==
    Has("monthly") =>
        LET m == out.monthly
        IN  /\ Len(m) = Cardinality(Periods)
            /\ {MonthOfEntry(m[i]) : i \in DOMAIN m} = Periods
            /\ \A i \in 1..(Len(m) - 1) : Earlier(MonthOfEntry(m[i]), MonthOfEntry(m[i + 1]))
            /\ \A i \in DOMAIN m :
                   m[i].sales = TotalOver({j \in DOMAIN data :
                       <<YearOf(data[j].date), MonthOf(data[j].date)>> = MonthOfEntry(m[i])})
            /\ IsNaN(m[1].pct_change)
            /\ \A i \in 2..Len(m) :
                   /\ m[i].pct_change =
                         FMul(FDiv(FSub(Num(m[i].sales), Num(m[i - 1].sales)),
                                   Num(m[i - 1].sales)), Num(100))
                   /\ (m[i - 1].sales > 0 /\ 100 * m[i].sales = 150 * m[i - 1].sales)
                         => m[i].pct_change = Num(50)

\* Three months from rows that are not in date order; the second month's
\* total is one and a half times the first's.
C8_Witness ==
    /\ Has("monthly")
    /\ Len(out.monthly) = 3
    /\ Earlier(<<YearOf(data[2].date), MonthOf(data[2].date)>>,
               <<YearOf(data[1].date), MonthOf(data[1].date)>>)
    /\ out.monthly[2].pct_change = Num(50)
    /\ IsNum(out.monthly[3].pct_change)
    /\ out.monthly[3].sales # out.monthly[2].sales

\* The two earliest years of the data, and the items with rows in both.
Years == {YearOf(data[i].date) : i \in DOMAIN data}

FirstYear == CHOOSE y \in Years : \A z \in Years : y <= z

SecondYear == CHOOSE y \in Years \ {FirstYear} : \A z \in Years \ {FirstYear} : y <= z

ItemRowsIn(item, year) ==
    {i \in RowsWith(ItemCol(cols), item) : YearOf(data[i].date) = year}

ItemsInBoth ==
    {item \in Keys(ItemCol(cols)) :
        ItemRowsIn(item, FirstYear) # {} /\ ItemRowsIn(item, SecondYear) # {}}

(* C9: when the data spans two or more years, the items with a year-over-   *)
(* year figure are exactly the items with sales in both of the two earliest *)
(* years, however many later years there are, each with (year-2 total -     *)
(* year-1 total) / year-1 total x 100 over those two years.                 *)
C9_YearOverYearItems ==
    (pc \in {"recommendations", "done"} /\ Cardinality(Years) >= 2) =>
        /\ Has("yoy")
        /\ {out.yoy[i].item : i \in DOMAIN out.yoy} = ItemsInBoth
        /\ \A i \in DOMAIN out.yoy :
              LET first  == Num(TotalOver(ItemRowsIn(out.yoy[i].item, FirstYear)))
                  second == Num(TotalOver(ItemRowsIn(out.yoy[i].item, SecondYear)))
              IN  out.yoy[i].growth_pct =
                      Round1(FMul(FDiv(FSub(second, first), first), Num(100)))

DaysOf(series) == [i \in DOMAIN series |-> series[i].day]

(* C10: the day-of-week averages of display_timing_insights and of          *)
(* plot_day_of_week_pattern have their keys in the order Monday, Tuesday,   *)
(* Wednesday, Thursday, Friday, Saturday, Sunday, whatever the order of the *)
(* rows and whichever weekdays occur, never in alphabetical order.          *)
C10_MondayToSunday ==
    /\ Has("dow_sales") =>
          DaysOf(out.dow_sales) = <<"Monday", "Tuesday", "Wednesday", "Thursday",
                                    "Friday", "Saturday", "Sunday">>
    /\ ret.plot = "day_of_week" =>
          DaysOf(ret.series) = <<"Monday", "Tuesday", "Wednesday", "Thursday",
                                 "Friday", "Saturday", "Sunday">>

\* The timing section has run on rows whose first is a Friday, later in the
\* calendar than the second, a Monday; no row falls on a Tuesday.
C10_Witness ==
    /\ Has("dow_sales")
    /\ Len(data) >= 2
    /\ DayName(data[1].date) = "Friday"
    /\ DayName(data[2].date) = "Monday"
    /\ IsNum(out.dow_sales[1].mean) /\ IsNum(out.dow_sales[5].mean)
    /\ IsNaN(out.dow_sales[2].mean)

\* The month-over-month percent changes that are not null, in month order,
\* and the mean of the last three of them (NaN when there is none).
NonNullChanges ==
    SelectSeq([i \in DOMAIN out.monthly |-> out.monthly[i].pct_change],
              LAMBDA x : ~IsNaN(x))

LastChanges ==
    SubSeq(NonNullChanges, Len(NonNullChanges) - Min(3, Len(NonNullChanges)) + 1,
           Len(NonNullChanges))

RECURSIVE Total(_)
Total(s) == IF s = <<>> THEN Num(0) ELSE FAdd(Head(s), Total(Tail(s)))

RecentAverage ==
    IF LastChanges = <<>> THEN NaN ELSE FDiv(Total(LastChanges), Num(Len(LastChanges)))

(* C11: for a non-empty dataset the executive summary emits exactly one     *)
(* trend message, chosen by the mean of the last 3 non-null month-over-     *)
(* month percent changes: positive when the mean is > 5, stable when it is  *)
(* > 0 and at most 5, declining only when it is <= 0.                       *)
C11_TrendMessage ==
    Has("trend_messages") =>
        /\ Len(out.trend_messages) = 1
        /\ out.trend_messages[1] \in {"positive", "stable", "declining"}
        /\ out.trend_messages[1] = "positive" <=> FGt(RecentAverage, Num(5))
        /\ out.trend_messages[1] = "stable" <=>
              (FGt(RecentAverage, Num(0)) /\ FLe(RecentAverage, Num(5)))
        /\ out.trend_messages[1] = "declining" => FLe(RecentAverage, Num(0))

(* C12: no call changes the dataset it is given: over any sequence of calls *)
(* (business_insights_view, its five sections, the plot functions) the      *)
(* caller's dataset keeps its rows, its columns and its values; day_of_week *)
(* is added to a private copy only.                                         *)
C12_DatasetUnchanged == [][data' = data /\ cols' = cols]_vars

\* The whole page has been rendered over rows on several weekdays, the timing
\* section and the recommendations having each derived day_of_week.
C12_Witness ==
    /\ pc = "done"
    /\ Len(data) >= 2
    /\ Has("dow_sales") /\ Has("rec_worst_day")
    /\ \E i, j \in DOMAIN data : DayName(data[i].date) # DayName(data[j].date)
    /\ \A i \in DOMAIN data : DOMAIN data[i] = {"date", "sales"} \cup cols

=============================================================================
